---- MODULE Spec2Model ----
(***************************************************************************)
(* Vehicle overload detection training script (ml-model/train_model.py):   *)
(* synthetic data generation, dataset validation and the linear            *)
(* generate / validate / split / scale / train / evaluate / save / predict *)
(* pipeline of main().                                                     *)
(*                                                                         *)
(* Numbers.  The script computes in binary floating point.  A float is     *)
(* modelled as an integer count of units of 2^-FracBits, and every         *)
(* arithmetic operation rounds its exact result to the nearest value with  *)
(* MantBits significant bits (ties to even), as IEEE-754 does with 53.     *)
(***************************************************************************)
EXTENDS Integers, Naturals, Sequences, FiniteSets, Bags, TLC

\* ------------------------------------------------------------------ bounds
\* Significant bits of the modelled floating point format (53 in the source).
MantBits == 7
\* Largest n_samples passed to create_synthetic_dataset / used by main.
MaxSamples == 3
\* Largest n_samples passed to a class generator called on its own.
MaxGen == 2
\* Largest number of rows of a hand-built dataset given to validate_data.
MaxRows == 2

\* ------------------------------------------------------ floating point
FracBits == MantBits + 2
Unit == 2 ^ FracBits
F(n) == n * Unit                        \* the float of an integer literal
Eighths(n) == n * (2 ^ (FracBits - 3))  \* the float n / 8
Inf == 2 ^ 30                           \* +infinity
NaN == 0 - (2 ^ 30) - 1                 \* null / NaN

MinI(a, b) == IF a <= b THEN a ELSE b
AbsI(a) == IF a < 0 THEN 0 - a ELSE a

\* floor(log2(q)) of q >= 1, and 0 below.
ILog2(q) ==
    IF q <= 1 THEN 0 ELSE CHOOSE e \in 0..30 : 2 ^ e <= q /\ q \div 2 < 2 ^ e

\* The number of trailing zero bits of a, and 0 for 0.
TrailingZeros(a) ==
    IF a = 0 THEN 0
    ELSE CHOOSE k \in 0..30 : a % (2 ^ k) = 0 /\ (a \div (2 ^ k)) % 2 = 1

\* Round the positive rational numer/denom (in units) to MantBits significant
\* bits, nearest, ties to even.
Fl(numer, denom) ==
    IF numer = 0 THEN 0
    ELSE LET e  == ILog2(numer \div denom)
             Q  == IF e >= MantBits - 1 THEN 2 ^ (e - MantBits + 1) ELSE 1
             d2 == denom * Q
             f  == numer \div d2
             r  == numer % d2
         IN  Q * (IF 2 * r > d2 \/ (2 * r = d2 /\ f % 2 = 1) THEN f + 1 ELSE f)

\* a * b, rounded.  Common powers of two are cancelled before multiplying.
Mul(a, b) ==
    LET ta == MinI(TrailingZeros(a), FracBits)
        tb == MinI(TrailingZeros(b), FracBits - ta)
    IN  Fl((a \div (2 ^ ta)) * (b \div (2 ^ tb)), 2 ^ (FracBits - ta - tb))

\* a / b, rounded.
Div(a, b) ==
    LET tb == MinI(TrailingZeros(b), FracBits)
    IN  Fl(a * (2 ^ (FracBits - tb)), b \div (2 ^ tb))

\* ------------------------------------------------------ configuration
RANDOM_STATE == 42
MODEL_FILE == "vehicle_overload_model.pkl"
SCALER_FILE == "scaler.pkl"
CONFIG_FILE == "model_config.json"

\* ------------------------------------------------------------ data frames
\* A DataFrame is [cols: the set of column names, rows: a sequence of
\* records over cols].
DataFrame(cols, rows) == [cols |-> cols, rows |-> rows]
NoFrame == DataFrame({}, <<>>)

GeneratedColumns ==
    {"current_load", "max_load", "suspension", "tire_pressure", "weight",
     "speed", "load_ratio", "is_overloaded"}

\* np.random.uniform(low, high, n): each element is one of the interval's
\* end points or of the given interior points.
Uniform(low, high, interior) == {low, high} \cup interior

\* One sample's raw draws for a normal vehicle.  suspension, tire_pressure,
\* weight and speed take the low or the high end of their ranges together.
NormalLevel(lv) ==
    [suspension    |-> IF lv = "lo" THEN F(70)   ELSE F(100),
     tire_pressure |-> IF lv = "lo" THEN F(28)   ELSE F(35),
     weight        |-> IF lv = "lo" THEN F(3000) ELSE F(8000),
     speed         |-> IF lv = "lo" THEN F(30)   ELSE F(80)]

NormalDraws ==
    { [current_load |-> cl, max_load |-> ml, rest |-> NormalLevel(lv)] :
        cl \in Uniform(F(2), F(8), {}),
        ml \in Uniform(F(10), F(15), {Eighths(99)}),
        lv \in {"lo", "hi"} }

\* The draws of the smallest and of the largest load ratio.
NormalCorners ==
    { d \in NormalDraws :
        \/ d.current_load = F(2) /\ d.max_load = F(15)
        \/ d.current_load = F(8) /\ d.max_load = F(10) }

\* Overloaded tire pressures drawn up to 145 instead of 45.
OverloadedLevel_wide(lv) ==
    [suspension    |-> IF lv = "lo" THEN F(20)   ELSE F(60),
     tire_pressure |-> IF lv = "lo" THEN F(20)   ELSE F(145),
     weight        |-> IF lv = "lo" THEN F(5000) ELSE F(10000),
     speed         |-> IF lv = "lo" THEN F(50)   ELSE F(120)]

OverloadedLevel(lv) ==
    [suspension    |-> IF lv = "lo" THEN F(20)   ELSE F(60),
     tire_pressure |-> IF lv = "lo" THEN F(20)   ELSE F(45),
     weight        |-> IF lv = "lo" THEN F(5000) ELSE F(10000),
     speed         |-> IF lv = "lo" THEN F(50)   ELSE F(120)]

\* A lower end of the overloaded ratio range that reaches below 100.
OverloadedRatioLow_low == F(95)
OverloadedRatioLow == F(105)

OverloadedDraws ==
    { [max_load |-> ml, rest |-> OverloadedLevel(lv), load_ratio |-> lr] :
        ml \in Uniform(F(10), F(15), {}),
        lv \in {"lo", "hi"},
        lr \in Uniform(OverloadedRatioLow, F(160), {F(107)}) }

\* The draws of the smallest and of the largest current load.
OverloadedCorners ==
    { d \in OverloadedDraws :
        \/ d.load_ratio = OverloadedRatioLow /\ d.max_load = F(10)
        \/ d.load_ratio = F(160) /\ d.max_load = F(15) }

\* df['load_ratio'] = (df['current_load'] / df['max_load']) * 100
LoadRatio(current_load, max_load) == Mul(Div(current_load, max_load), F(100))

\* df['load_ratio'].clip(upper=95)
ClipUpper(x) == MinI(x, F(95))

\* df['current_load'] = df['load_ratio'] * df['max_load'] / 100
NormalCurrentLoad(load_ratio, max_load) == Div(Mul(load_ratio, max_load), F(100))

\* The division by 100 forgotten.
OverloadedCurrentLoad_nodiv(load_ratio, max_load) == Mul(load_ratio, max_load)

\* df['current_load'] = (df['load_ratio'] / 100) * df['max_load']
OverloadedCurrentLoad(load_ratio, max_load) == Mul(Div(load_ratio, F(100)), max_load)

NormalRow(d) ==
    LET ratio == ClipUpper(LoadRatio(d.current_load, d.max_load))
    IN  [current_load  |-> NormalCurrentLoad(ratio, d.max_load),
         max_load      |-> d.max_load,
         suspension    |-> d.rest.suspension,
         tire_pressure |-> d.rest.tire_pressure,
         weight        |-> d.rest.weight,
         speed         |-> d.rest.speed,
         load_ratio    |-> ratio,
         is_overloaded |-> 0]

OverloadedRow(d) ==
    [max_load      |-> d.max_load,
     suspension    |-> d.rest.suspension,
     tire_pressure |-> d.rest.tire_pressure,
     weight        |-> d.rest.weight,
     speed         |-> d.rest.speed,
     load_ratio    |-> d.load_ratio,
     current_load  |-> OverloadedCurrentLoad(d.load_ratio, d.max_load),
     is_overloaded |-> 1]

\* The row of each draw, computed once.
NormalRows == [d \in NormalDraws |-> NormalRow(d)]
OverloadedRows == [d \in OverloadedDraws |-> OverloadedRow(d)]

\* draws: one raw draw per sample, Len(draws) = n_samples.
generate_normal_vehicle_data(draws) ==
    DataFrame(GeneratedColumns, [i \in 1..Len(draws) |-> NormalRows[draws[i]]])

generate_overloaded_vehicle_data(draws) ==
    DataFrame(GeneratedColumns, [i \in 1..Len(draws) |-> OverloadedRows[draws[i]]])

\* pd.concat([a, b], ignore_index=True)
Concat(a, b) == DataFrame(a.cols \cup b.cols, a.rows \o b.rows)

\* Sampling with replacement: a row may be taken twice.
Shuffle_replace(df, perm) ==
    DataFrame(df.cols,
              [i \in 1..Len(df.rows) |-> df.rows[perm[IF i = 1 THEN 1 ELSE i - 1]]])

\* df.sample(frac=1, random_state=RANDOM_STATE).reset_index(drop=True):
\* the rows in the order perm, a permutation of the row positions.
Shuffle(df, perm) ==
    DataFrame(df.cols, [i \in 1..Len(df.rows) |-> df.rows[perm[i]]])

NNormal(n_samples) == n_samples \div 2
NOverloaded(n_samples) == n_samples - NNormal(n_samples)

\* The function's locals normal_df and overloaded_df and the frame it returns.
create_synthetic_dataset(normal_draws, overloaded_draws, perm) ==
    LET normal     == generate_normal_vehicle_data(normal_draws)
        overloaded == generate_overloaded_vehicle_data(overloaded_draws)
    IN  [normal_df     |-> normal,
         overloaded_df |-> overloaded,
         df            |-> Shuffle(Concat(normal, overloaded), perm)]

\* The sequences of length n over S.
Arrays(S, n) == [1..n -> S]

\* ------------------------------------------------------------ validation
required_columns ==
    <<"current_load", "max_load", "load_ratio", "suspension",
      "tire_pressure", "weight", "speed", "is_overloaded">>

Range(s) == {s[i] : i \in DOMAIN s}

\* [col for col in required_columns if col not in df.columns]
missing_columns(d) == SelectSeq(required_columns, LAMBDA col : col \notin d.cols)

\* df[col]: the values of a column.
Column(d, col) == {d.rows[i][col] : i \in DOMAIN d.rows}

\* df.isnull().any().any()
HasNull(d) == \E c \in d.cols : \E v \in Column(d, c) : v = NaN

\* np.isinf(df[numeric_cols]).any().any()
HasInf(d) == \E c \in d.cols : \E v \in Column(d, c) : v = Inf \/ v = 0 - Inf

SuspensionOutOfRange(d) ==
    \/ \E v \in Column(d, "suspension") : v < 0
    \/ \E v \in Column(d, "suspension") : v > F(100)

TirePressureOutOfRange(d) ==
    \/ \E v \in Column(d, "tire_pressure") : v < 0
    \/ \E v \in Column(d, "tire_pressure") : v > F(100)

LoadOutOfRange(d) ==
    \/ \E v \in Column(d, "current_load") : v < 0
    \/ \E v \in Column(d, "max_load") : v < 0

\* df['is_overloaded'].value_counts(): the distinct labels (with their counts).
label_counts(d) == Column(d, "is_overloaded")

TooFewLabels(d) == Cardinality(label_counts(d)) < 2

ErrMissing == "Missing required columns"
ErrNull == "Dataset contains null values"
ErrInf == "Dataset contains infinite values"
ErrSuspension == "Suspension values must be between 0 and 100"
ErrTirePressure == "Tire pressure values must be positive"
ErrLoad == "Load values must be positive"
ErrLabels == "Dataset must contain both classes (0 and 1)"

\* The value returned ("True") or the message of the ValueError raised.
validate_data(d) ==
    IF missing_columns(d) # <<>> THEN ErrMissing
    ELSE IF HasNull(d) THEN ErrNull
    ELSE IF HasInf(d) THEN ErrInf
    ELSE IF SuspensionOutOfRange(d) THEN ErrSuspension
    ELSE IF TirePressureOutOfRange(d) THEN ErrTirePressure
    ELSE IF LoadOutOfRange(d) THEN ErrLoad
    ELSE IF TooFewLabels(d) THEN ErrLabels
    ELSE "True"

Raises(res) == res \notin {"none", "True"}

\* ------------------------------------------------------------------ state
None == [none |-> TRUE]

VARIABLES
    pc,             \* position of the program
    n_samples,      \* the n_samples argument / N_SAMPLES
    normal_df,      \* result of generate_normal_vehicle_data
    overloaded_df,  \* result of generate_overloaded_vehicle_data
    df,             \* the dataset
    result,         \* outcome of validate_data: "none", "True" or the error
    steps,          \* the steps of main entered so far, in order
    feature_names,  \* main's feature_names
    X,              \* main's feature matrix
    model,          \* the classifier: its constructor parameters, or None
    scaler,         \* the scaler: "none", "new" or "fitted"
    metrics,        \* evaluate_model's result, or None
    files,          \* names of the files written, in order
    config,         \* content of the configuration file, or None
    examples,       \* feature vectors built by test_predictions
    log,            \* the lines printed that the properties refer to
    raised          \* whether an exception has propagated out of main

vars == <<pc, n_samples, normal_df, overloaded_df, df, result, steps,
          feature_names, X, model, scaler, metrics, files, config, examples,
          log, raised>>

dataVars == <<normal_df, overloaded_df, df>>
mainVars == <<steps, feature_names, X, model, scaler, metrics, files, config,
              examples, log, raised>>

MainIdle ==
    /\ steps = <<>>
    /\ feature_names = <<>>
    /\ X = <<>>
    /\ model = None
    /\ scaler = "none"
    /\ metrics = None
    /\ files = <<>>
    /\ config = None
    /\ examples = <<>>
    /\ log = <<>>
    /\ raised = FALSE

\* ------------------------------------- the data functions, called directly
InitGen ==
    /\ pc = "start"
    /\ n_samples = 0
    /\ normal_df = NoFrame
    /\ overloaded_df = NoFrame
    /\ df = NoFrame
    /\ result = "none"
    /\ MainIdle

CallGenerateNormal ==
    /\ pc = "start"
    /\ \E n \in 0..MaxGen : \E draws \in Arrays(NormalDraws, n) :
          /\ n_samples' = n
          /\ normal_df' = generate_normal_vehicle_data(draws)
    /\ pc' = "generated"
    /\ UNCHANGED <<overloaded_df, df, result, mainVars>>

CallGenerateOverloaded ==
    /\ pc = "start"
    /\ \E n \in 0..MaxGen : \E draws \in Arrays(OverloadedDraws, n) :
          /\ n_samples' = n
          /\ overloaded_df' = generate_overloaded_vehicle_data(draws)
    /\ pc' = "generated"
    /\ UNCHANGED <<normal_df, df, result, mainVars>>

CallCreateSyntheticDataset ==
    /\ pc = "start"
    /\ \E n \in 0..MaxSamples :
       \E nd \in Arrays(NormalCorners, NNormal(n)) :
       \E od \in Arrays(OverloadedCorners, NOverloaded(n)) :
       \E perm \in Permutations(1..n) :
          LET ret == create_synthetic_dataset(nd, od, perm)
          IN  /\ n_samples' = n
              /\ normal_df' = ret.normal_df
              /\ overloaded_df' = ret.overloaded_df
              /\ df' = ret.df
    /\ pc' = "created"
    /\ UNCHANGED <<result, mainVars>>

CallValidateData ==
    /\ pc = "created"
    /\ result' = validate_data(df)
    /\ pc' = "validated"
    /\ UNCHANGED <<n_samples, dataVars, mainVars>>

NextGen ==
    \/ CallGenerateNormal
    \/ CallGenerateOverloaded
    \/ CallCreateSyntheticDataset
    \/ CallValidateData

SpecGen == InitGen /\ [][NextGen]_vars

\* ------------------------------------------- properties of generated data
GeneratedRows ==
    Range(normal_df.rows) \cup Range(overloaded_df.rows) \cup Range(df.rows)

SeqToBag(s) == [x \in Range(s) |-> Cardinality({i \in DOMAIN s : s[i] = x})]

CountLabel(d, l) == Cardinality({i \in DOMAIN d.rows : d.rows[i].is_overloaded = l})

\* C1: in every record produced by the two class generators and by
\* create_synthetic_dataset, is_overloaded = 0 goes with load_ratio < 100 and
\* is_overloaded = 1 with load_ratio > 100 (the label is 1 iff the ratio
\* exceeds 100).
C1_LabelTiedToRatio ==
    \A r \in GeneratedRows :
        /\ r.is_overloaded \in {0, 1}
        /\ r.is_overloaded = 0 => r.load_ratio < F(100)
        /\ r.is_overloaded = 1 => r.load_ratio > F(100)
        /\ r.is_overloaded = 1 <=> r.load_ratio > F(100)

C1_Witness ==
    /\ pc = "created"
    /\ n_samples = MaxSamples
    /\ \E r \in Range(df.rows) : r.is_overloaded = 0 /\ r.load_ratio = F(80)
    /\ \E r \in Range(df.rows) : r.is_overloaded = 1 /\ r.load_ratio = F(105)

\* C4 as stated: every generated record's load_ratio equals
\* current_load / max_load * 100 computed from its final current_load.
C4_RatioExactlyDerived ==
    \A r \in GeneratedRows : r.load_ratio = LoadRatio(r.current_load, r.max_load)

\* C4 amended: every generated record's load_ratio equals
\* current_load / max_load * 100 up to floating point rounding: the two differ
\* by at most 8 unit roundoffs (2^(3 - MantBits)) relative to load_ratio.
C4_RatioDerivedUpToRounding ==
    \A r \in GeneratedRows :
        AbsI(r.load_ratio - LoadRatio(r.current_load, r.max_load))
            * (2 ^ (MantBits - 3)) <= r.load_ratio

C4_Witness ==
    /\ pc = "generated"
    /\ \E r \in Range(overloaded_df.rows) :
          /\ r.load_ratio = F(107)
          /\ r.load_ratio # LoadRatio(r.current_load, r.max_load)

\* C8: create_synthetic_dataset(n_samples) returns n_samples records,
\* floor(n_samples / 2) of them labelled 0 and the others labelled 1, and
\* the shuffled records are, as a multiset, the normal records followed by
\* the overloaded ones.
C8_BalancedPermutation ==
    pc = "created" =>
        /\ Len(df.rows) = n_samples
        /\ CountLabel(df, 0) = n_samples \div 2
        /\ CountLabel(df, 1) = n_samples - (n_samples \div 2)
        /\ CountLabel(df, 1) - CountLabel(df, 0) \in {0, 1}
        /\ SeqToBag(df.rows) = SeqToBag(normal_df.rows \o overloaded_df.rows)

C8_Witness ==
    /\ pc = "created"
    /\ n_samples = 3
    /\ df.rows # normal_df.rows \o overloaded_df.rows
    /\ df.rows[1].is_overloaded = 1
    /\ df.rows[3].is_overloaded = 0

\* C10 seen from main (a supporting check): with N_SAMPLES >= 2 the
\* validation step of the pipeline does not raise.
MainValidationPasses ==
    (n_samples >= 2 /\ "validate" \in Range(steps)) => result = "True"

RowAccepted(r) ==
    /\ r.suspension >= 0 /\ r.suspension <= F(100)
    /\ r.tire_pressure >= 0 /\ r.tire_pressure <= F(100)
    /\ r.current_load >= 0 /\ r.max_load >= 0

\* C10: the dataset create_synthetic_dataset(n_samples) returns is accepted
\* by validate_data when n_samples >= 2 (all columns present, every value in
\* the accepted range, both labels present); for n_samples of 0 or 1 it
\* lacks a label and validate_data raises.
C10_GeneratorPassesValidation ==
    pc = "validated" =>
        /\ n_samples >= 2 =>
              /\ result = "True"
              /\ Range(required_columns) \subseteq df.cols
              /\ \A r \in Range(df.rows) : RowAccepted(r)
              /\ {0, 1} \subseteq label_counts(df)
        /\ n_samples < 2 =>
              /\ result = ErrLabels
              /\ ~({0, 1} \subseteq label_counts(df))

C10_Witness ==
    /\ pc = "validated"
    /\ n_samples = 2
    /\ result = "True"
    /\ \E r \in Range(df.rows) : r.suspension = F(100)
    /\ \E r \in Range(df.rows) : r.tire_pressure = F(45)

\* --------------------------------------- validate_data on arbitrary frames
Labels == {0, 1, 2}

\* A row every range check accepts.
ValidRow(label) ==
    [current_load  |-> F(8),
     max_load      |-> F(12),
     load_ratio    |-> LoadRatio(F(8), F(12)),
     suspension    |-> F(85),
     tire_pressure |-> F(32),
     weight        |-> F(5000),
     speed         |-> F(60),
     is_overloaded |-> label]

\* The other values a cell of the column may hold.
Alternatives(col) ==
    CASE col \in {"suspension", "tire_pressure"} -> {F(0 - 1), 0, F(100), F(101)}
      [] col \in {"current_load", "max_load"}    -> {F(0 - 1), 0}
      [] col = "weight"                          -> {NaN, Inf, 0 - Inf}
      [] OTHER                                   -> {}

\* The rows with one cell replaced.
Deviate(rows) ==
    UNION { { [r EXCEPT ![c] = v] : v \in Alternatives(c) } :
              r \in rows, c \in Range(required_columns) }

\* Valid rows and rows with one cell off.
InputRows ==
    {ValidRow(l) : l \in Labels} \cup Deviate({ValidRow(l) : l \in Labels})

InputRowSeqs == UNION { Arrays(InputRows, n) : n \in 0..MaxRows }

Restrict(r, cols) == [c \in cols |-> r[c]]

\* Frames with all the required columns or with one of them missing.
InputFrames ==
    { DataFrame(cols, [i \in DOMAIN rows |-> Restrict(rows[i], cols)]) :
        rows \in InputRowSeqs,
        cols \in {Range(required_columns)}
                    \cup {Range(required_columns) \ {c} : c \in Range(required_columns)} }

InitVal ==
    /\ pc = "input"
    /\ df \in InputFrames
    /\ n_samples = Len(df.rows)
    /\ normal_df = NoFrame
    /\ overloaded_df = NoFrame
    /\ result = "none"
    /\ MainIdle

CallValidateInput ==
    /\ pc = "input"
    /\ result' = validate_data(df)
    /\ pc' = "validated"
    /\ UNCHANGED <<n_samples, dataVars, mainVars>>

NextVal == CallValidateInput

SpecVal == InitVal /\ [][NextVal]_vars

\* The values of a column, none when the frame lacks it.
Cells(col) == IF col \in df.cols THEN Column(df, col) ELSE {}

\* C2: validate_data raises, and does not return True, whenever some record
\* has a suspension outside 0..100, a tire_pressure that is not > 0, or a
\* current_load or max_load that is not > 0.
C2_RejectsNonPositive ==
    (/\ pc = "validated"
     /\ \/ \E v \in Cells("suspension") : v < 0 \/ v > F(100)
        \/ \E v \in Cells("tire_pressure") : ~(v > 0)
        \/ \E v \in Cells("current_load") : ~(v > 0)
        \/ \E v \in Cells("max_load") : ~(v > 0))
        => Raises(result)

\* C3: validate_data raises whenever a required column is missing (reported
\* first), a value is null, a numeric value is infinite, or the labels 0 and
\* 1 are not both present; it returns True only when no check fails.
C3_RejectsMalformed ==
    pc = "validated" =>
        /\ missing_columns(df) # <<>> => result = ErrMissing
        /\ (HasNull(df) \/ HasInf(df)) => Raises(result)
        /\ (missing_columns(df) = <<>> /\ ~({0, 1} \subseteq label_counts(df)))
              => Raises(result)
        /\ result = "True" =>
              /\ missing_columns(df) = <<>>
              /\ ~HasNull(df) /\ ~HasInf(df)
              /\ ~SuspensionOutOfRange(df)
              /\ ~TirePressureOutOfRange(df)
              /\ ~LoadOutOfRange(df)
              /\ ~TooFewLabels(df)

\* C3 with the labels restricted to 0 and 1 (a supporting check): every part
\* of the claim holds of frames whose labels are binary.
C3_RejectsMalformedBinary ==
    (missing_columns(df) = <<>> /\ label_counts(df) \subseteq {0, 1})
        => C3_RejectsMalformed

\* ------------------------------------------------------------------- main

\* The steps of main, in the order of its code.
main_sequence_trainlast ==
    <<"generate", "validate", "prepare", "split", "scale", "save",
      "test_predictions", "train", "evaluate">>

main_sequence ==
    <<"generate", "validate", "prepare", "split", "scale", "train",
      "evaluate", "save", "test_predictions">>

Index(s, x) == CHOOSE i \in DOMAIN s : s[i] = x

\* The position after step p has returned.
After(p) ==
    IF Index(main_sequence, p) = Len(main_sequence) THEN "done"
    ELSE main_sequence[Index(main_sequence, p) + 1]

ErrPipeline == "Error in training pipeline"
ErrSaving == "Error saving artifacts"
Completed == "Training Pipeline Completed Successfully!"

\* An except clause that logs and carries on instead of re-raising.
main_except_swallow(lines) ==
    [pc |-> "done", raised |-> FALSE, log |-> Append(lines, ErrPipeline)]

\* main's except clause: print the error and the traceback, re-raise.
main_except(lines) ==
    [pc |-> "raised", raised |-> TRUE, log |-> Append(lines, ErrPipeline)]

\* The exception of the current step reaches main's except clause; lines are
\* the lines printed until then.
Raise(lines) ==
    LET h == main_except(lines)
    IN  /\ pc' = h.pc
        /\ raised' = h.raised
        /\ log' = h.log

Enter(p) == pc = p /\ steps' = Append(steps, p)

Return(p) == pc' = After(p) /\ UNCHANGED <<raised, log>>

\* The draws main's data set is made of.
MainNormalDraws == {d \in NormalCorners : d.rest = NormalLevel("hi")}
MainOverloadedDraws == {d \in OverloadedCorners : d.rest = OverloadedLevel("hi")}

\* n_samples stands for N_SAMPLES (1000 in the source).
Init ==
    /\ pc = main_sequence[1]
    /\ n_samples \in 0..MaxSamples
    /\ normal_df = NoFrame
    /\ overloaded_df = NoFrame
    /\ df = NoFrame
    /\ result = "none"
    /\ MainIdle

\* Step 1: df = create_synthetic_dataset(N_SAMPLES)
StepGenerate ==
    /\ Enter("generate")
    /\ \E nd \in Arrays(MainNormalDraws, NNormal(n_samples)) :
       \E od \in Arrays(MainOverloadedDraws, NOverloaded(n_samples)) :
       \E perm \in Permutations(1..n_samples) :
          LET ret == create_synthetic_dataset(nd, od, perm)
          IN  /\ normal_df' = ret.normal_df
              /\ overloaded_df' = ret.overloaded_df
              /\ df' = ret.df
    /\ Return("generate")
    /\ UNCHANGED <<n_samples, result, feature_names, X, model, scaler, metrics,
                   files, config, examples>>

\* Step 2: validate_data(df)
StepValidate ==
    /\ Enter("validate")
    /\ result' = validate_data(df)
    /\ IF Raises(result') THEN Raise(log) ELSE Return("validate")
    /\ UNCHANGED <<n_samples, dataVars, feature_names, X, model, scaler, metrics,
                   files, config, examples>>

main_feature_names ==
    <<"current_load", "max_load", "load_ratio", "suspension",
      "tire_pressure", "weight", "speed">>

\* df[names].values
Values(d, names) ==
    [i \in DOMAIN d.rows |-> [j \in DOMAIN names |-> d.rows[i][names[j]]]]

\* Step 3: feature_names, X and y
StepPrepare ==
    /\ Enter("prepare")
    /\ feature_names' = main_feature_names
    /\ X' = Values(df, feature_names')
    /\ Return("prepare")
    /\ UNCHANGED <<n_samples, dataVars, result, model, scaler, metrics, files,
                   config, examples>>

\* Step 4: train_test_split(...), which may raise
StepSplit ==
    /\ Enter("split")
    /\ \/ Return("split")
       \/ Raise(log)
    /\ UNCHANGED <<n_samples, dataVars, result, feature_names, X, model, scaler,
                   metrics, files, config, examples>>

\* Step 5: scaler = StandardScaler(); fit_transform, transform
StepScale ==
    /\ Enter("scale")
    /\ \/ scaler' = "fitted" /\ Return("scale")
       \/ scaler' = "new" /\ Raise(log)
    /\ UNCHANGED <<n_samples, dataVars, result, feature_names, X, model, metrics,
                   files, config, examples>>

\* A classifier built with twice the trees.
classifier_parameters_200 ==
    [n_estimators |-> 200, max_depth |-> 10, random_state |-> RANDOM_STATE,
     n_jobs |-> 0 - 1, verbose |-> 1]

\* RandomForestClassifier(n_estimators=100, max_depth=10, ...)
classifier_parameters ==
    [n_estimators |-> 100, max_depth |-> 10, random_state |-> RANDOM_STATE,
     n_jobs |-> 0 - 1, verbose |-> 1]

\* Step 6: model = train_model(X_train_scaled, y_train)
StepTrain ==
    /\ Enter("train")
    /\ \/ model' = [parameters |-> classifier_parameters, fitted |-> TRUE]
          /\ Return("train")
       \/ UNCHANGED model /\ Raise(log)
    /\ UNCHANGED <<n_samples, dataVars, result, feature_names, X, scaler, metrics,
                   files, config, examples>>

\* Step 7: metrics = evaluate_model(model, X_test_scaled, y_test)
StepEvaluate ==
    /\ Enter("evaluate")
    /\ \/ metrics' = [of |-> model] /\ Return("evaluate")
       \/ UNCHANGED metrics /\ Raise(log)
    /\ UNCHANGED <<n_samples, dataVars, result, feature_names, X, model, scaler,
                   files, config, examples>>

File(name, complete) == [name |-> name, complete |-> complete]

\* A failed write leaves no file or an incomplete one; save_model_artifacts'
\* except clause prints and re-raises.
FailedWrite(name) ==
    /\ \/ files' = files
       \/ files' = Append(files, File(name, FALSE))
    /\ Raise(Append(log, ErrSaving))

\* Step 8, save_model_artifacts: joblib.dump(model, MODEL_FILE)
StepSaveModel ==
    /\ Enter("save")
    /\ \/ files' = Append(files, File(MODEL_FILE, TRUE))
          /\ pc' = "save_scaler"
          /\ UNCHANGED <<raised, log>>
       \/ FailedWrite(MODEL_FILE)
    /\ UNCHANGED <<n_samples, dataVars, result, feature_names, X, model, scaler,
                   metrics, config, examples>>

\* save_model_artifacts: joblib.dump(scaler, SCALER_FILE)
StepSaveScaler ==
    /\ pc = "save_scaler"
    /\ \/ files' = Append(files, File(SCALER_FILE, TRUE))
          /\ pc' = "save_config"
          /\ UNCHANGED <<raised, log>>
       \/ FailedWrite(SCALER_FILE)
    /\ UNCHANGED <<n_samples, dataVars, result, steps, feature_names, X, model,
                   scaler, metrics, config, examples>>

config_model_parameters ==
    [n_estimators |-> 100, max_depth |-> 10, random_state |-> RANDOM_STATE]

\* The config dictionary (training_date left out).
Config(names, m) ==
    [model_name         |-> "Vehicle Overload Detection",
     model_version      |-> "1.0.0",
     model_type         |-> "RandomForestClassifier",
     model_parameters   |-> config_model_parameters,
     feature_names      |-> names,
     evaluation_metrics |-> m,
     scaler_type        |-> "StandardScaler"]

\* save_model_artifacts: json.dump(config, f) into CONFIG_FILE
StepSaveConfig ==
    /\ pc = "save_config"
    /\ \/ files' = Append(files, File(CONFIG_FILE, TRUE))
          /\ config' = Config(feature_names, metrics)
          /\ Return("save")
       \/ FailedWrite(CONFIG_FILE) /\ UNCHANGED config
    /\ UNCHANGED <<n_samples, dataVars, result, steps, feature_names, X, model,
                   scaler, metrics, examples>>

test_cases ==
    <<[name |-> "Normal Vehicle", current_load |-> F(8), max_load |-> F(12),
       suspension |-> F(85), tire_pressure |-> F(32), weight |-> F(5000),
       speed |-> F(60)],
      [name |-> "Slightly Overloaded", current_load |-> F(13), max_load |-> F(12),
       suspension |-> F(70), tire_pressure |-> F(30), weight |-> F(6000),
       speed |-> F(75)],
      [name |-> "Severely Overloaded", current_load |-> F(18), max_load |-> F(12),
       suspension |-> F(40), tire_pressure |-> F(25), weight |-> F(8000),
       speed |-> F(90)],
      [name |-> "Borderline Case", current_load |-> Eighths(92), max_load |-> F(12),
       suspension |-> F(65), tire_pressure |-> F(28), weight |-> F(5500),
       speed |-> F(70)]>>

\* Suspension and tire pressure in each other's place.
test_features_swapped(test_case) ==
    <<test_case.current_load, test_case.max_load,
      LoadRatio(test_case.current_load, test_case.max_load),
      test_case.tire_pressure, test_case.suspension, test_case.weight,
      test_case.speed>>

\* features = np.array([[...]]) of one test case
test_features(test_case) ==
    <<test_case.current_load, test_case.max_load,
      LoadRatio(test_case.current_load, test_case.max_load),
      test_case.suspension, test_case.tire_pressure, test_case.weight,
      test_case.speed>>

\* The feature vectors of the test cases, in the order of the loop.
test_vectors == [k \in DOMAIN test_cases |-> test_features(test_cases[k])]

\* Step 9: test_predictions(model, scaler, feature_names), then the
\* completion banner.  scaler.transform or model.predict may raise at any of
\* the cases, after its feature vector was built.
StepTestPredictions ==
    /\ Enter("test_predictions")
    /\ \/ /\ examples' = test_vectors
          /\ pc' = After("test_predictions")
          /\ log' = Append(log, Completed)
          /\ UNCHANGED raised
       \/ /\ \E n \in DOMAIN test_cases :
                examples' = SubSeq(test_vectors, 1, n)
          /\ Raise(log)
    /\ UNCHANGED <<n_samples, dataVars, result, feature_names, X, model, scaler,
                   metrics, files, config>>

Next ==
    \/ StepGenerate
    \/ StepValidate
    \/ StepPrepare
    \/ StepSplit
    \/ StepScale
    \/ StepTrain
    \/ StepEvaluate
    \/ StepSaveModel
    \/ StepSaveScaler
    \/ StepSaveConfig
    \/ StepTestPredictions

Spec == Init /\ [][Next]_vars

\* main is sequential code: a statement that can run does run.
FairSpec == Spec /\ WF_vars(Next)

\* -------------------------------------------------- properties of main
IsPrefix(s, t) == Len(s) <= Len(t) /\ \A i \in DOMAIN s : s[i] = t[i]

NoDuplicates(s) == \A i, j \in DOMAIN s : s[i] = s[j] => i = j

FileNames == [i \in DOMAIN files |-> files[i].name]

Written(name) == \E i \in DOMAIN files : files[i] = File(name, TRUE)

\* C5: the n_estimators, max_depth and random_state recorded under
\* model_parameters in the saved configuration are the values the classifier
\* was constructed with.
C5_ConfigRecordsTrainingParameters ==
    config # None =>
        /\ model # None
        /\ config.model_parameters.n_estimators = model.parameters.n_estimators
        /\ config.model_parameters.max_depth = model.parameters.max_depth
        /\ config.model_parameters.random_state = model.parameters.random_state

C5_Witness ==
    /\ pc = "done"
    /\ Written(CONFIG_FILE)
    /\ config.model_parameters.n_estimators = 100
    /\ model.fitted

\* C6: an error raised by a step is logged and re-raised out of main; the
\* failed step is not retried, no later step runs, completion is never
\* reported, and the files written before the failure stay in place.
C6_ErrorPropagatesState ==
    /\ Raises(result) => raised
    /\ (\E i \in DOMAIN log : log[i] \in {ErrPipeline, ErrSaving}) => raised
    /\ raised =>
          /\ pc = "raised"
          /\ log # <<>> /\ log[Len(log)] = ErrPipeline
          /\ \A i \in DOMAIN log : log[i] # Completed
          /\ NoDuplicates(steps)
    /\ (\E i \in DOMAIN log : log[i] = Completed) => ~raised /\ pc = "done"

C6_ErrorPropagatesStep ==
    /\ raised => UNCHANGED vars
    /\ raised' =>
          /\ IsPrefix(steps, steps') /\ Len(steps') <= Len(steps) + 1
          /\ IsPrefix(files, files')
          /\ \A i \in DOMAIN files' : i > Len(files) => ~files'[i].complete

\* C6, as a property of every state and of every step of main.
C6_ErrorPropagates == [](C6_ErrorPropagatesState) /\ [][C6_ErrorPropagatesStep]_vars

C6_Witness ==
    /\ raised
    /\ pc = "raised"
    /\ Written(MODEL_FILE) /\ Written(SCALER_FILE) /\ ~Written(CONFIG_FILE)
    /\ log[Len(log) - 1] = ErrSaving

\* The order the claim gives.
ClaimedOrder ==
    <<"generate", "validate", "split", "scale", "train", "evaluate", "save",
      "test_predictions">>

\* C7: the steps of main run at most once each, in the order generate,
\* validate, split, scale, train, evaluate, save, example predictions; a file
\* is written only after validation passed and training and evaluation
\* completed; the files are written in the order model, scaler, config; a run
\* in which no step fails ends with the three artifacts written.
C7_StepsOnceInOrderState ==
    /\ NoDuplicates(steps)
    /\ IsPrefix(SelectSeq(steps, LAMBDA p : p \in Range(ClaimedOrder)), ClaimedOrder)
    /\ files # <<>> =>
          /\ result = "True"
          /\ model # None /\ model.fitted
          /\ metrics # None
          /\ {"validate", "train", "evaluate"} \subseteq Range(steps)
    /\ IsPrefix(FileNames, <<MODEL_FILE, SCALER_FILE, CONFIG_FILE>>)
    /\ pc = "done" =>
          /\ ~raised
          /\ files = <<File(MODEL_FILE, TRUE), File(SCALER_FILE, TRUE),
                       File(CONFIG_FILE, TRUE)>>
          /\ SelectSeq(steps, LAMBDA p : p \in Range(ClaimedOrder)) = ClaimedOrder
    /\ pc \notin {"done", "raised"} =>
          pc \in Range(main_sequence) \cup {"save_scaler", "save_config"}

\* C7, with termination: every run of main ends, completed or raised.
C7_StepsOnceInOrder ==
    [](C7_StepsOnceInOrderState) /\ <>(pc \in {"done", "raised"})

C7_Witness ==
    /\ pc = "done"
    /\ n_samples = MaxSamples
    /\ Len(steps) = Len(main_sequence)
    /\ Written(MODEL_FILE) /\ Written(SCALER_FILE) /\ Written(CONFIG_FILE)

\* The order the claim gives.
ClaimedFeatures ==
    <<"current_load", "max_load", "load_ratio", "suspension", "tire_pressure",
      "weight", "speed">>

WithRatio(test_case) ==
    [c \in Range(ClaimedFeatures) |->
        IF c = "load_ratio"
        THEN LoadRatio(test_case.current_load, test_case.max_load)
        ELSE test_case[c]]

\* C9: the columns of the training matrix, the feature_names written to the
\* configuration and the feature vector of each example of test_predictions
\* are in the order current_load, max_load, load_ratio, suspension,
\* tire_pressure, weight, speed, an example's load_ratio being
\* current_load / max_load * 100.
C9_OneFeatureOrder ==
    /\ feature_names # <<>> => feature_names = ClaimedFeatures
    /\ \A i \in DOMAIN X :
          /\ Len(X[i]) = Len(ClaimedFeatures)
          /\ \A j \in DOMAIN ClaimedFeatures : X[i][j] = df.rows[i][ClaimedFeatures[j]]
    /\ Len(X) = IF feature_names # <<>> THEN Len(df.rows) ELSE 0
    /\ config # None => config.feature_names = ClaimedFeatures
    /\ \A k \in DOMAIN examples :
          /\ Len(examples[k]) = Len(ClaimedFeatures)
          /\ \A j \in DOMAIN ClaimedFeatures :
                examples[k][j] = WithRatio(test_cases[k])[ClaimedFeatures[j]]

C9_Witness ==
    /\ pc = "done"
    /\ Len(X) = MaxSamples
    /\ config # None
    /\ Len(examples) = Len(test_cases)
    /\ examples[4][3] = LoadRatio(Eighths(92), F(12))
    /\ examples[4][4] = F(65)

====
